---- MODULE Spec2Model ----
(***************************************************************************)
(* State-machine model of the IBM DataPower Gateway task modules           *)
(* idg_domain_chkpoint (states present, absent, restored) and              *)
(* idg_domain_config (states exported, imported, reseted, saved, stored).  *)
(*                                                                         *)
(* One invocation of main() is one process.  main() is sequential code     *)
(* that blocks in idg_mgmt.api_call; every action below is the segment of  *)
(* main() that consumes one device response and runs up to the next call   *)
(* or to the end of the invocation.  Device responses are inputs.          *)
(*                                                                         *)
(* Python values are modelled as follows: None/True/False are the strings  *)
(* "None", "True", "False"; a dictionary key that is missing is "absent";  *)
(* a text is a sequence of fragments, a fragment being a record            *)
(* [ph, name] (a known phrase naming a checkpoint, or other text).         *)
(***************************************************************************)
EXTENDS Integers, Sequences, FiniteSets, TLC

VARIABLES st

vars == <<st>>

\* ------------------------------------------------------------------ bounds
Procs == {1, 2}

\* Overall poll budget of wait_for_action_end, in units of PollInterval.
OverallTimeout == 2

PollInterval == 1

\* ------------------------------------------------------- parameters, names
ModuleStates ==
    { <<"chkpoint", "present">>, <<"chkpoint", "absent">>, <<"chkpoint", "restored">>,
      <<"config", "exported">>, <<"config", "imported">>, <<"config", "reseted">>,
      <<"config", "saved">>, <<"config", "stored">>,
      <<"discovery", "discovery">> }

\* module.params['domain'] (chkpoint) / module.params['name'] (config)
domain_name(p) == IF p = 1 THEN "d1" ELSE "d2"

\* module.params['name'] of the checkpoint module
chkpoint_name(p) == IF p = 1 THEN "cp1" ELSE "cp2"

ActionName(state) ==
    CASE state = "present"  -> "SaveCheckpoint"
      [] state = "absent"   -> "RemoveCheckpoint"
      [] state = "restored" -> "RollbackCheckpoint"
      [] state = "exported" -> "Export"
      [] state = "imported" -> "Import"
      [] state = "reseted"  -> "ResetThisDomain"
      [] state = "saved"    -> "SaveConfig"
      [] OTHER              -> "file"

Range(s) == { s[i] : i \in 1..Len(s) }

\* ------------------------------------------------------------------- texts
Frag(ph, name) == [ph |-> ph, name |-> name]

\* "Configuration Checkpoint '<name>' already exists."
AlreadyExists(name) == Frag("AlreadyExists", name)

\* "Cannot find Configuration Checkpoint '<name>'."
CannotFind(name) == Frag("CannotFind", name)

OtherText == Frag("other", "")

\* The value of an 'error' key: a text, a list of texts, or a missing key.
NoErr == [shape |-> "absent", items |-> <<>>]

ErrStr(text) == [shape |-> "str", items |-> <<text>>]

ErrList(texts) == [shape |-> "list", items |-> texts]

\* The characters of a checkpoint name.
NameChars(name) ==
    CASE name = "cp1"  -> <<"c", "p", "1">>
      [] name = "cp2"  -> <<"c", "p", "2">>
      [] name = "cp11" -> <<"c", "p", "1", "1">>
      [] OTHER         -> <<>>

\* The string a fragment stands for; literal pieces of the source's string
\* constants are single symbols, names are spelled out.
Chars(frag) ==
    CASE frag.ph = "AlreadyExists" ->
             <<"Configuration Checkpoint '">> \o NameChars(frag.name) \o <<"'", " already exists.">>
      [] frag.ph = "CannotFind" ->
             <<"Cannot find ", "Configuration Checkpoint '">> \o NameChars(frag.name) \o <<"'", ".">>
      [] OTHER -> <<"other text ">>

RECURSIVE Text(_)
\* The string a text (a sequence of fragments) stands for.
Text(frags) == IF frags = <<>> THEN <<>> ELSE Chars(Head(frags)) \o Text(Tail(frags))

\* Python `needle in haystack` on two str values.
IsSubstring(needle, haystack) ==
    \E i \in 0..(Len(haystack) - Len(needle)) :
        SubSeq(haystack, i + 1, i + Len(needle)) = needle

\* Fault variant of Contains: the phrase is recognised whatever name it carries.
ContainsAnyName(err, phrase) ==
    \E i \in 1..Len(err.items) : \E j \in 1..Len(err.items[i]) :
        err.items[i][j].ph = phrase.ph

\* Python `phrase in err`: substring test on a str, membership test on a list.
Contains(err, phrase) ==
    IF err.shape = "str"
    THEN IsSubstring(Chars(phrase), Text(err.items[1]))
    ELSE \E i \in 1..Len(err.items) : Text(err.items[i]) = Chars(phrase)

\* Python str.capitalize() on the status labels the device is given here.
capitalize(label) ==
    CASE label = "completed" -> "Completed"
      [] label = "pending"   -> "Pending"
      [] label = "error"     -> "Error"
      [] label = "ERROR"     -> "Error"
      [] OTHER               -> label

\* ---------------------------------------------------------------- messages
Msg(k, state, domain, text, err) ==
    [k |-> k, state |-> state, domain |-> domain, text |-> text, err |-> err, code |-> 0,
     names |-> <<>>]

NoMsg == Msg("None", "", "", "", NoErr)

IMMUTABLE_MESSAGE == Msg("IMMUTABLE_MESSAGE", "", "", "", NoErr)

\* IDGApi.GENERAL_ERROR.format(module, state, domain) + str(ErrorHandler(err))
GENERAL_ERROR(state, domain, err) == Msg("GENERAL_ERROR", state, domain, "", err)

\* idg_mgmt.status_text(value): the text of an inline action result
status_text(value) == Msg("status_text", "", "", value, NoErr)

\* a list of domain names used as msg
NamesList(names) == [Msg("list", "", "", "", NoErr) EXCEPT !.names = names]

\* a plain string used as msg
PlainText(text) == Msg("text", "", "", text, NoErr)

\* ---------------------------------------------------------- result records
\* idg_common.result, the seed of the record handed to exit_json
result ==
    [changed |-> "False", failed |-> "absent", msg |-> NoMsg, file |-> "absent",
     hasResults |-> FALSE, results |-> <<>>, name |-> "absent", domain |-> "absent"]

\* tmp_result as main() creates it
tmp_result(module, p) ==
    [changed |-> "None", failed |-> "None", msg |-> NoMsg, file |-> "None",
     hasResults |-> FALSE, results |-> <<>>,
     name |-> CASE module = "chkpoint"  -> chkpoint_name(p)
                [] module = "discovery" -> "None"
                [] OTHER                -> domain_name(p),
     domain |-> IF module = "chkpoint" THEN domain_name(p) ELSE "None"]

\* for k, v in tmp_result.items(): if v != None: result[k] = v
UpdateResult(seed, tmp) ==
    [changed    |-> IF tmp.changed # "None" THEN tmp.changed ELSE seed.changed,
     failed     |-> IF tmp.failed # "None" THEN tmp.failed ELSE seed.failed,
     msg        |-> IF tmp.msg # NoMsg THEN tmp.msg ELSE seed.msg,
     file       |-> IF tmp.file # "None" THEN tmp.file ELSE seed.file,
     hasResults |-> tmp.hasResults \/ seed.hasResults,
     results    |-> IF tmp.hasResults THEN tmp.results ELSE seed.results,
     name       |-> IF tmp.name # "None" THEN tmp.name ELSE seed.name,
     domain     |-> IF tmp.domain # "None" THEN tmp.domain ELSE seed.domain]

\* what module.exit_json(**record) prints
exit_json(record) == [kind |-> "exit"] @@ record

\* what module.fail_json(msg=msg) prints
FailRec(msg) ==
    [kind |-> "fail", changed |-> "absent", failed |-> "True", msg |-> msg,
     file |-> "absent", hasResults |-> FALSE, results |-> <<>>,
     name |-> "absent", domain |-> "absent"]

\* ---------------------------------------------------------- device bodies
NoDomains == [t |-> "absent", names |-> <<>>]

NoDStatus == [t |-> "absent", items |-> <<>>]

NoDetected == [t |-> "absent", v |-> "", error |-> "absent"]

\* A nested section of import-results: the key is missing ("absent"), the
\* section lacks its inner key ("nokey"), or the inner value is a single
\* object ("obj", items holds it) or a list of entries ("list").
NoSection == [t |-> "absent", items |-> <<>>]

NoImp ==
    [t |-> "absent", detected |-> NoDetected, exportDetails |-> "absent",
     execScript |-> NoSection, fileCopy |-> NoSection, importedDebug |-> "absent",
     importedFiles |-> NoSection, importedObjects |-> NoSection]

\* A decoded JSON body; every key the modules read is a field.
Body0 ==
    [domain |-> NoDomains, dstatus |-> NoDStatus, href |-> "absent",
     action |-> "absent", error |-> NoErr, status |-> "absent",
     file |-> "absent", imp |-> NoImp, store_result |-> "absent"]

\* What api_call gives back: (code, msg, data), or a transport failure.
Http(code, reason, body) == [kind |-> "http", code |-> code, reason |-> reason, body |-> body]

TransportError == [kind |-> "err", code |-> 0, reason |-> "", body |-> Body0]

IsOK(r) == r.code = 200 /\ r.reason = "OK"

IsAccepted(r) == r.code = 202 /\ r.reason = "Accepted"

IsBadRequest(r) == r.code = 400 /\ r.reason = "Bad Request"

\* ----------------------------------------------------------- request log
URI_DOMAIN_LIST == <<"URI_DOMAIN_LIST", "">>

URI_DOMAIN_STATUS == <<"URI_DOMAIN_STATUS", "">>

URI_ACTION(domain) == <<"URI_ACTION", domain>>

URI_FILESTORE(domain) == <<"URI_FILESTORE", domain>>

UriHref(href) == <<"href", href>>

Req(kind, method, uri, resp) == [kind |-> kind, method |-> method, uri |-> uri, resp |-> resp]

Sent(s, kind, method, uri, resp) == [s EXCEPT !.reqs = Append(@, Req(kind, method, uri, resp))]

\* ------------------------------------------------- try / except / else
\* Fault variant of TryMain: exit_json runs in a finally clause, hence also
\* after fail_json has printed its record.
TryMainFinally(s, how, tmp, emitted, exc) ==
    [s EXCEPT !.pc = "done",
              !.tmp = tmp,
              !.terms = @ \o emitted \o
                  (CASE how = "NameError" ->
                          <<FailRec(Msg("to_native(e)", "", "", exc, NoErr))>>
                     [] how = "Exception" ->
                          <<FailRec(Msg("UNCONTROLLED_EXCEPTION", "", "", exc, NoErr))>>
                     [] OTHER ->
                          <<exit_json(UpdateResult(result, tmp))>>)]

\* The outcome of the body of main()'s try statement:
\*   how = "return"     the body ran to its end (tmp_result is final)
\*   how = "NameError"  the body raised NameError or UnboundLocalError
\*   how = "Exception"  the body raised another exception deriving from Exception
\*   how = "SystemExit" the body called fail_json or exit_json, which printed
\*                      `emitted` and raised SystemExit
TryMain(s, how, tmp, emitted, exc) ==
    [s EXCEPT !.pc = "done",
              !.tmp = tmp,
              !.terms = @ \o emitted \o
                  (CASE how = "return" ->
                          <<exit_json(UpdateResult(result, tmp))>>
                     [] how = "NameError" ->
                          <<FailRec(Msg("to_native(e)", "", "", exc, NoErr))>>
                     [] how = "Exception" ->
                          <<FailRec(Msg("UNCONTROLLED_EXCEPTION", "", "", exc, NoErr))>>
                     [] OTHER -> <<>>)]

Return(s, tmp) == TryMain(s, "return", tmp, <<>>, "")

\* Fault variant of Raise: the exception is swallowed and main() goes on to its end.
RaiseSwallowed(s, exc) == TryMain(s, "return", s.tmp, <<>>, exc)

Raise(s, exc) == TryMain(s, "Exception", s.tmp, <<>>, exc)

fail_json(s, msg) == TryMain(s, "SystemExit", s.tmp, <<FailRec(msg)>>, "")

\* IDGUtils.implement_check_mode(module, result)
implement_check_mode(s, next) ==
    IF s.check_mode
    THEN TryMain(s, "SystemExit", s.tmp, <<exit_json(result)>>, "")
    ELSE [s EXCEPT !.pc = next]

\* --------------------------------------------------------- domain listing
\* module.params['output_path'] (state stored)
Paths == {"/cert/ca_root.cer", "ca_root.cer"}

\* filename.rsplit('/', 1)[1]
FileNameOf(path) ==
    IF path = "/cert/ca_root.cer" THEN "ca_root.cer" ELSE "IndexError"

\* configured_domains
\* alphabetical rank of the domain names used here
NameOrder(name) ==
    CASE name = "d1" -> 1 [] name = "d2" -> 2 [] OTHER -> 3

configured_domains(body) ==
    IF body.domain.t = "dict" THEN <<body.domain.names[1]>> ELSE body.domain.names

\* Fault variant of AfterDomainList: the requested domain is not looked up.
AfterDomainListAnyDomain(s, p, r) ==
    LET s1 == Sent(s, "list", "GET", URI_DOMAIN_LIST, r) IN
    IF r.kind = "err" THEN Raise(s1, "TransportError")
    ELSE IF IsOK(r) THEN
        IF r.body.domain.t = "absent" THEN Raise(s1, "KeyError")
        ELSE CASE s.state = "saved"  -> [s1 EXCEPT !.pc = "status"]
               [] s.state = "stored" ->
                     IF FileNameOf(s.output_path) = "IndexError" THEN Raise(s1, "IndexError")
                     ELSE implement_check_mode(s1, "store")
               [] OTHER              -> implement_check_mode(s1, "submit")
    ELSE fail_json(s1, Msg("ERROR_GET_DOMAIN_LIST", "", "", "", NoErr))

\* main() from its start to the first call after the domain listing
AfterDomainList(s, p, r) ==
    LET s1 == Sent(s, "list", "GET", URI_DOMAIN_LIST, r) IN
    IF r.kind = "err" THEN Raise(s1, "TransportError")
    ELSE IF IsOK(r) THEN
        IF r.body.domain.t = "absent" THEN Raise(s1, "KeyError")
        ELSE IF domain_name(p) \in Range(configured_domains(r.body)) THEN
            CASE s.state = "saved"  -> [s1 EXCEPT !.pc = "status"]
              [] s.state = "stored" ->
                    IF FileNameOf(s.output_path) = "IndexError" THEN Raise(s1, "IndexError")
                    ELSE implement_check_mode(s1, "store")
              [] OTHER              -> implement_check_mode(s1, "submit")
        ELSE fail_json(s1, Msg("ERROR_NOT_DOMAIN", s.state, domain_name(p), "", NoErr))
    ELSE fail_json(s1, Msg("ERROR_GET_DOMAIN_LIST", "", "", "", NoErr))

\* Fault variant of DiscoveryMain: the names are reported sorted.
DiscoveryMainSorted(s, p, r) ==
    LET s1 == Sent(s, "list", "GET", URI_DOMAIN_LIST, r) IN
    IF r.kind = "err" THEN Raise(s1, "TransportError")
    ELSE IF IsOK(r) THEN
        IF r.body.domain.t = "absent" THEN Raise(s1, "KeyError")
        ELSE Return(s1, [s1.tmp EXCEPT !.msg = NamesList(SortSeq(configured_domains(r.body),
                                                                 LAMBDA a, b : NameOrder(a) < NameOrder(b)))])
    ELSE Return(s1, s1.tmp)

\* main() of the discovery module from its start to its end
DiscoveryMain(s, p, r) ==
    LET s1 == Sent(s, "list", "GET", URI_DOMAIN_LIST, r) IN
    IF r.kind = "err" THEN Raise(s1, "TransportError")
    ELSE IF IsOK(r) THEN
        IF r.body.domain.t = "absent" THEN Raise(s1, "KeyError")
        ELSE Return(s1, [s1.tmp EXCEPT !.msg = NamesList(configured_domains(r.body))])
    ELSE Return(s1, s1.tmp)

\* module_args names idg_endpoint_spec, which is undefined when the import of
\* the common package failed (HAS_IDG_DEPS = False): NameError.
Begin(s, p, r) ==
    IF ~s.deps THEN TryMain(s, "NameError", s.tmp, <<>>, "NameError")
    ELSE IF s.module = "discovery" THEN DiscoveryMain(s, p, r)
    ELSE AfterDomainList(s, p, r)

DomainBodies ==
    { [Body0 EXCEPT !.domain = d] :
        d \in { NoDomains,
                [t |-> "dict", names |-> <<"default">>],
                [t |-> "dict", names |-> <<"d1">>],
                [t |-> "dict", names |-> <<"d2">>],
                [t |-> "list", names |-> <<"default", "d1">>],
                [t |-> "list", names |-> <<"default", "d2">>],
                [t |-> "list", names |-> <<"d2", "d1">>] } }

ListResponses ==
    {TransportError, Http(500, "Internal Server Error", Body0)}
      \cup { Http(200, "OK", b) : b \in DomainBodies }
      \cup { Http(200, "Other", [Body0 EXCEPT !.domain = [t |-> "list", names |-> <<"d2", "d1">>]]) }

\* ------------------------------------------------------------ processes
Process(ms, check, deps, path, p, pc) ==
    [module |-> ms[1], state |-> ms[2], check_mode |-> check, deps |-> deps,
     output_path |-> path,
     pc |-> pc, tmp |-> tmp_result(ms[1], p), action_result |-> "",
     href |-> "absent", elapsed |-> 0, reqs |-> <<>>, terms |-> <<>>]

Off == Process(<<"chkpoint", "present">>, FALSE, TRUE, "/cert/ca_root.cer", 2, "off")

\* One invocation; the second process never starts.
Init ==
    \E ms \in ModuleStates, check \in BOOLEAN, deps \in BOOLEAN, path \in Paths :
        /\ ms[2] # "stored" => path = "/cert/ca_root.cer"
        /\ st = [p \in Procs |-> IF p = 1 THEN Process(ms, check, deps, path, 1, "list") ELSE Off]

\* Fault variant of Step: the location of the asynchronous action is kept in
\* one place for all invocations.
StepSharedHref(p, s) ==
    st' = [q \in Procs |-> IF q = p THEN s ELSE [st[q] EXCEPT !.href = s.href]]

\* A step of main() of invocation p: only p's own variables change.
Step(p, s) == st' = [st EXCEPT ![p] = s]

DomainList(p) ==
    /\ st[p].pc = "list"
    /\ \E r \in ListResponses : Step(p, Begin(st[p], p, r))

\* ----------------------------------------------------------- state saved
\* domain_save_needed; "IndexError" when no list entry names the domain
domain_save_needed(body, domain) ==
    IF body.dstatus.t = "dict" THEN body.dstatus.items[1].SaveNeeded
    ELSE IF \E i \in 1..Len(body.dstatus.items) : body.dstatus.items[i].Domain = domain
         THEN LET i == CHOOSE j \in 1..Len(body.dstatus.items) :
                          /\ body.dstatus.items[j].Domain = domain
                          /\ \A k \in 1..(j - 1) : body.dstatus.items[k].Domain # domain
              IN body.dstatus.items[i].SaveNeeded
         ELSE "IndexError"

\* Fault variant of AfterDomainStatus: check mode is handled before the
\* SaveNeeded flag is looked at.
AfterDomainStatusCheckFirst(s, p, r) ==
    LET s1 == Sent(s, "status", "GET", URI_DOMAIN_STATUS, r) IN
    IF r.kind = "err" THEN Raise(s1, "TransportError")
    ELSE IF IsOK(r) THEN
        IF s.check_mode THEN implement_check_mode(s1, "submit")
        ELSE IF r.body.dstatus.t = "absent" THEN Raise(s1, "KeyError")
        ELSE LET needed == domain_save_needed(r.body, domain_name(p)) IN
             IF needed = "IndexError" THEN Raise(s1, "IndexError")
             ELSE IF needed # "off" THEN implement_check_mode(s1, "submit")
             ELSE Return(s1, [s1.tmp EXCEPT !.msg = IMMUTABLE_MESSAGE])
    ELSE Return(s1, s1.tmp)

\* state == 'saved': from the DomainStatus response to the action POST
AfterDomainStatus(s, p, r) ==
    LET s1 == Sent(s, "status", "GET", URI_DOMAIN_STATUS, r) IN
    IF r.kind = "err" THEN Raise(s1, "TransportError")
    ELSE IF IsOK(r) THEN
        IF r.body.dstatus.t = "absent" THEN Raise(s1, "KeyError")
        ELSE LET needed == domain_save_needed(r.body, domain_name(p)) IN
             IF needed = "IndexError" THEN Raise(s1, "IndexError")
             ELSE IF needed # "off" THEN implement_check_mode(s1, "submit")
             ELSE Return(s1, [s1.tmp EXCEPT !.msg = IMMUTABLE_MESSAGE])
    ELSE Return(s1, s1.tmp)

DStat(domain, needed) == [Domain |-> domain, SaveNeeded |-> needed]

DomainStatusBodies ==
    { [Body0 EXCEPT !.dstatus = d] :
        d \in { NoDStatus,
                [t |-> "dict", items |-> <<DStat("default", "on")>>],
                [t |-> "dict", items |-> <<DStat("d1", "off")>>],
                [t |-> "list", items |-> <<DStat("default", "off"), DStat("d1", "on"), DStat("d2", "off")>>],
                [t |-> "list", items |-> <<DStat("default", "on"), DStat("d1", "off"), DStat("d2", "on")>>],
                [t |-> "list", items |-> <<DStat("default", "on")>>] } }

StatusResponses ==
    {TransportError, Http(500, "Internal Server Error", Body0)}
      \cup { Http(200, "OK", b) : b \in DomainStatusBodies }

DomainStatus(p) ==
    /\ st[p].pc = "status"
    /\ \E r \in StatusResponses : Step(p, AfterDomainStatus(st[p], p, r))

\* ------------------------------------------------------ action submission
\* create_data['_links']['location']['href'] and its siblings
LocationHref(body) == body.href

\* The rejection branch of each state (the last else of the if/elif chain).
\* Fault variant of NotAccepted: a rejected action is submitted again.
NotAcceptedRetry(s, p, r) == [s EXCEPT !.pc = "submit"]

NotAccepted(s, p, r) ==
    CASE s.state = "saved" ->
            fail_json(s, Msg("ERROR_RETRIEVING_RESULT", s.state, domain_name(p), "", NoErr))
      [] s.state = "imported" ->
            fail_json(s, Msg("ERROR_ACCEPTING_ACTION", s.state, domain_name(p), "import_action_msg", NoErr))
      [] OTHER ->
            fail_json(s, Msg("ERROR_ACCEPTING_ACTION", s.state, domain_name(p), "", NoErr))

\* Fault variant of RemoveBadRequest: the branch reports a change.
RemoveBadRequestChanged(s, p, r) ==
    IF r.body.error.shape = "absent" THEN Raise(s, "KeyError")
    ELSE IF Contains(r.body.error, CannotFind(chkpoint_name(p)))
         THEN Return(s, [s.tmp EXCEPT !.msg = IMMUTABLE_MESSAGE])
         ELSE Return(s, [s.tmp EXCEPT !.msg = GENERAL_ERROR(s.state, domain_name(p), r.body.error),
                                       !.changed = "True", !.failed = "True"])

\* elif rm_code == 400 and rm_msg == 'Bad Request' (state absent only)
RemoveBadRequest(s, p, r) ==
    IF r.body.error.shape = "absent" THEN Raise(s, "KeyError")
    ELSE IF Contains(r.body.error, CannotFind(chkpoint_name(p)))
         THEN Return(s, [s.tmp EXCEPT !.msg = IMMUTABLE_MESSAGE])
         ELSE Return(s, [s.tmp EXCEPT !.msg = GENERAL_ERROR(s.state, domain_name(p), r.body.error),
                                       !.failed = "True"])

\* Fault variant of SyncDone: the result of a synchronous action is fetched
\* like that of an asynchronous one.
SyncDoneFetchesDetail(s, p, r) == [s EXCEPT !.pc = "detail"]

\* elif code == 200 and msg == 'OK': successfully processed synchronized action
SyncDone(s, p, r) ==
    IF r.body.action = "absent" THEN Raise(s, "KeyError")
    ELSE Return(s, [s.tmp EXCEPT !.msg = status_text(r.body.action), !.changed = "True"])

\* Fault variant of Accepted: the link is read with a default instead of raising.
AcceptedWithoutLink(s, p, r) ==
    [s EXCEPT !.pc = "poll", !.href = LocationHref(r.body), !.elapsed = 0]

\* if code == 202 and msg == 'Accepted': the arguments of wait_for_action_end
Accepted(s, p, r) ==
    IF LocationHref(r.body) = "absent" THEN Raise(s, "KeyError")
    ELSE [s EXCEPT !.pc = "poll", !.href = LocationHref(r.body), !.elapsed = 0]

\* From the response to the action POST to the poll loop or to the end.
AfterSubmit(s, p, r) ==
    LET s1 == Sent(s, "submit", "POST", URI_ACTION(domain_name(p)), r) IN
    IF r.kind = "err" THEN Raise(s1, "TransportError")
    ELSE IF IsAccepted(r) THEN Accepted(s1, p, r)
    ELSE IF IsOK(r) THEN SyncDone(s1, p, r)
    ELSE IF s.state = "absent" /\ IsBadRequest(r) THEN RemoveBadRequest(s1, p, r)
    ELSE NotAccepted(s1, p, r)

ErrorPayloads ==
    { ErrStr(<<OtherText>>),
      ErrStr(<<AlreadyExists("cp1")>>),
      ErrStr(<<AlreadyExists("cp2")>>),
      ErrStr(<<AlreadyExists("cp11")>>),
      ErrList(<<<<AlreadyExists("cp11")>>>>),
      ErrStr(<<OtherText, CannotFind("cp1"), OtherText>>),
      ErrStr(<<CannotFind("cp2")>>),
      ErrList(<<<<CannotFind("cp1")>>>>),
      ErrList(<<<<OtherText>>, <<AlreadyExists("cp1")>>>>),
      ErrList(<<<<OtherText, CannotFind("cp1")>>>>) }

Hrefs == {"loc1", "loc2"}

SubmitResponses ==
    {TransportError}
      \cup { Http(202, "Accepted", [Body0 EXCEPT !.href = h]) : h \in Hrefs \cup {"absent"} }
      \cup { Http(202, "Other", [Body0 EXCEPT !.href = "loc1"]),
             Http(202, "Other", Body0) }
      \cup { Http(200, "OK", Body0),
             Http(200, "OK", [Body0 EXCEPT !.action = "Operation completed."]),
             Http(200, "OK", [Body0 EXCEPT !.action = "Operation completed.",
                                           !.error = ErrStr(<<OtherText>>)]),
             Http(200, "OK", [Body0 EXCEPT !.error = ErrStr(<<OtherText>>)]),
             Http(200, "Other", [Body0 EXCEPT !.action = "Operation completed."]) }
      \cup { Http(400, "Bad Request", [Body0 EXCEPT !.error = e]) : e \in ErrorPayloads \cup {NoErr} }
      \cup { Http(400, "Other", [Body0 EXCEPT !.error = ErrStr(<<CannotFind("cp1")>>)]),
             Http(400, "Other", [Body0 EXCEPT !.error = ErrStr(<<CannotFind("cp2")>>)]),
             Http(500, "Internal Server Error", [Body0 EXCEPT !.error = ErrStr(<<AlreadyExists("cp1")>>)]) }

Submit(p) ==
    /\ st[p].pc = "submit"
    /\ \E r \in SubmitResponses : Step(p, AfterSubmit(st[p], p, r))

\* ------------------------------------------------------------ state stored
\* if store_msg == 'OK' and store_code == 200 or store_code == 201
\* Fault variant of AfterStore: the reason 'OK' is wanted for 201 as well.
AfterStoreOKOnly(s, p, r) ==
    LET s1 == Sent(s, "store", "PUT", URI_FILESTORE(domain_name(p)), r) IN
    IF r.kind = "err" THEN Raise(s1, "TransportError")
    ELSE IF r.reason = "OK" /\ (r.code = 200 \/ r.code = 201) THEN
        IF r.body.store_result = "absent" THEN Raise(s1, "KeyError")
        ELSE Return(s1, [s1.tmp EXCEPT !.msg = status_text(r.body.store_result), !.changed = "True"])
    ELSE fail_json(s1, [Msg("ERROR_REACH_STATE", s.state, domain_name(p), "", r.body.error)
                          EXCEPT !.code = r.code, !.text = r.body.store_result])

AfterStore(s, p, r) ==
    LET s1 == Sent(s, "store", "PUT", URI_FILESTORE(domain_name(p)), r) IN
    IF r.kind = "err" THEN Raise(s1, "TransportError")
    ELSE IF (r.reason = "OK" /\ r.code = 200) \/ r.code = 201 THEN
        IF r.body.store_result = "absent" THEN Raise(s1, "KeyError")
        ELSE Return(s1, [s1.tmp EXCEPT !.msg = status_text(r.body.store_result), !.changed = "True"])
    ELSE fail_json(s1, [Msg("ERROR_REACH_STATE", s.state, domain_name(p), "", r.body.error)
                          EXCEPT !.code = r.code, !.text = r.body.store_result])

StoreResponses ==
    {TransportError}
      \cup { Http(c[1], c[2], b) :
               c \in { <<200, "OK">>, <<200, "Other">>, <<201, "Created">>, <<201, "Other">>,
                       <<409, "Conflict">> },
               b \in { Body0,
                       [Body0 EXCEPT !.store_result = "File was created."],
                       [Body0 EXCEPT !.error = ErrStr(<<OtherText>>)] } }

Store(p) ==
    /\ st[p].pc = "store"
    /\ \E r \in StoreResponses : Step(p, AfterStore(st[p], p, r))

\* ------------------------------------------------------------ poll loop
\* The explicit in-progress marker of the poll endpoint.
Pending == "pending"

StatusLabels == {Pending, "completed", "error", "ERROR"}

\* Fault variant of wait_for_action_end: on timeout the poller returns to main().
wait_for_action_end_returns_timed_out(s, p, r) ==
    LET s1 == Sent(s, "poll", "GET", UriHref(s.href), r) IN
    IF r.kind = "err" THEN Raise(s1, "TransportError")
    ELSE IF r.body.status = "absent" THEN
        fail_json(s1, Msg("ProtocolViolation", s.state, domain_name(p), "", NoErr))
    ELSE IF r.body.status # "pending" THEN
        [s1 EXCEPT !.pc = "detail", !.action_result = r.body.status]
    ELSE IF s.elapsed > OverallTimeout THEN
        [s1 EXCEPT !.pc = "detail", !.action_result = "TimedOut"]
    ELSE [s1 EXCEPT !.elapsed = @ + PollInterval]

\* One iteration of idg_mgmt.wait_for_action_end(uri, href=..., state=...):
\* GET the location; a transport failure surfaces; a body without a status is
\* a protocol violation; any status but the in-progress marker ends the loop
\* and is returned; past the overall timeout the action is TimedOut, which
\* is fatal; otherwise wait the interval and repeat.
wait_for_action_end(s, p, r) ==
    LET s1 == Sent(s, "poll", "GET", UriHref(s.href), r) IN
    IF r.kind = "err" THEN Raise(s1, "TransportError")
    ELSE IF r.body.status = "absent" THEN
        fail_json(s1, Msg("ProtocolViolation", s.state, domain_name(p), "", NoErr))
    ELSE IF r.body.status # Pending THEN
        [s1 EXCEPT !.pc = "detail", !.action_result = r.body.status]
    ELSE IF s.elapsed > OverallTimeout THEN
        fail_json(s1, Msg("TimedOut", s.state, domain_name(p), "", NoErr))
    ELSE [s1 EXCEPT !.elapsed = @ + PollInterval]

PollResponses ==
    {TransportError, Http(200, "OK", Body0)}
      \cup { Http(200, "OK", [Body0 EXCEPT !.status = l]) : l \in StatusLabels }

Poll(p) ==
    /\ st[p].pc = "poll"
    /\ \E r \in PollResponses : Step(p, wait_for_action_end(st[p], p, r))

\* --------------------------------------------------- final detail: chkpoint
\* Fault variant of PresentDetail: the status label is reported as received.
PresentDetailRaw(s, p, body) ==
    IF body.status = "absent" THEN Raise(s, "KeyError")
    ELSE IF body.status = "error" THEN
        IF body.error.shape = "absent" THEN Raise(s, "KeyError")
        ELSE IF Contains(body.error, AlreadyExists(chkpoint_name(p)))
             THEN Return(s, [s.tmp EXCEPT !.changed = "False", !.msg = IMMUTABLE_MESSAGE])
             ELSE Return(s, [s.tmp EXCEPT !.changed = "False",
                                           !.msg = GENERAL_ERROR(s.state, domain_name(p), body.error),
                                           !.failed = "True"])
    ELSE Return(s, [s.tmp EXCEPT !.msg = PlainText(body.status), !.changed = "True"])

\* if dcr_data['status'] == 'error' ... else ... (state present)
PresentDetail(s, p, body) ==
    IF body.status = "absent" THEN Raise(s, "KeyError")
    ELSE IF body.status = "error" THEN
        IF body.error.shape = "absent" THEN Raise(s, "KeyError")
        ELSE IF Contains(body.error, AlreadyExists(chkpoint_name(p)))
             THEN Return(s, [s.tmp EXCEPT !.changed = "False", !.msg = IMMUTABLE_MESSAGE])
             ELSE Return(s, [s.tmp EXCEPT !.changed = "False",
                                           !.msg = GENERAL_ERROR(s.state, domain_name(p), body.error),
                                           !.failed = "True"])
    ELSE Return(s, [s.tmp EXCEPT !.msg = PlainText(capitalize(body.status)), !.changed = "True"])

\* if drm_data['status'] == 'error' ... else ... (states absent and restored)
RemoveRollbackDetail(s, p, body) ==
    IF body.status = "absent" THEN Raise(s, "KeyError")
    ELSE IF body.status = "error" THEN
        IF body.error.shape = "absent" THEN Raise(s, "KeyError")
        ELSE Return(s, [s.tmp EXCEPT !.msg = GENERAL_ERROR(s.state, domain_name(p), body.error),
                                      !.changed = "False", !.failed = "True"])
    ELSE Return(s, [s.tmp EXCEPT !.msg = PlainText(capitalize(body.status)), !.changed = "True"])

\* ----------------------------------------------------- final detail: config
\* tmp_result['file'] = doex_data['result']['file'] ... (state exported)
\* Fault variant of ExportDetail: a missing file is not an error.
ExportDetailDefault(s, p, body) ==
    Return(s, [s.tmp EXCEPT !.file = body.file, !.msg = PlainText(s.action_result),
                             !.changed = "True"])

ExportDetail(s, p, body) ==
    IF body.file = "absent" THEN Raise(s, "KeyError")
    ELSE Return(s, [s.tmp EXCEPT !.file = body.file, !.msg = PlainText(s.action_result),
                                  !.changed = "True"])

\* tmp_result['msg'] = dore_data['status'].capitalize() (state reseted)
ResetDetail(s, p, body) ==
    IF body.status = "absent" THEN Raise(s, "KeyError")
    ELSE Return(s, [s.tmp EXCEPT !.msg = PlainText(capitalize(body.status)), !.changed = "True"])

\* tmp_result['msg'] = action_result (state saved)
SaveDetail(s, p, body) ==
    Return(s, [s.tmp EXCEPT !.msg = PlainText(s.action_result), !.changed = "True"])

\* The sections of a successful import, in the order main() appends them.
\* One element of tmp_result['results']: {section: ...}. form tells what is
\* reported under the section name: a plain value, the {"summary", "detail"}
\* dictionary, the inner value as received ("object", "list") or the whole
\* section as received ("section"). total and status are those of the
\* summary and are left at 0 and <<>> in the other forms.
Reported(section, form, value, total, status, detail) ==
    [section |-> section, form |-> form, value |-> value,
     total |-> total, status |-> status, detail |-> detail]

RECURSIVE get_status_summary_from(_, _)
\* the loop of get_status_summary, s being the dictionary built so far
get_status_summary_from(list_dict, s) ==
    IF list_dict = <<>> THEN s
    ELSE LET i == Head(list_dict) IN
         get_status_summary_from(Tail(list_dict),
             IF i.status \notin DOMAIN s
             THEN s @@ (i.status :> 1)
             ELSE [s EXCEPT ![i.status] = @ + 1])

\* Fault variant of get_status_summary: a label seen again is not counted again.
get_status_summary_no_increment(list_dict) ==
    [l \in { list_dict[i].status : i \in 1..Len(list_dict) } |-> 1]

get_status_summary(list_dict) == get_status_summary_from(list_dict, <<>>)

\* try: sec = import_results[key]; try: if isinstance(sec[inner], list): ...
\* else: append sec[inner]; except: append sec; except: pass
SummarySection(section, raw) ==
    IF raw.t = "absent" THEN <<>>
    ELSE IF raw.t = "nokey"
         THEN <<Reported(section, "section", "", 0, <<>>, raw.items)>>
    ELSE IF raw.t = "list" THEN
        IF \E i \in 1..Len(raw.items) : raw.items[i].status = "absent"
        THEN <<Reported(section, "section", "", 0, <<>>, raw.items)>>
        ELSE <<Reported(section, "summary", "", Len(raw.items),
                        get_status_summary(raw.items), raw.items)>>
    ELSE <<Reported(section, "object", "", 0, <<>>, raw.items)>>

\* try: append {"file-copy-log": import_results['file-copy-log']['file-result']}
\* except: pass
FileCopyLog(raw) ==
    IF raw.t \in {"absent", "nokey"} THEN <<>>
    ELSE <<Reported("file-copy-log", IF raw.t = "list" THEN "list" ELSE "object",
                    "", 0, <<>>, raw.items)>>

\* try: append {"imported-debug": import_results['imported-debug']} except: pass
ImportedDebug(value) ==
    IF value = "absent" THEN <<>>
    ELSE <<Reported("imported-debug", "value", value, 0, <<>>, <<>>)>>

\* Fault variant of ImportSections: imported files and objects come before
\* the script results.
ImportSectionsFilesFirst(imp) ==
    <<Reported("export-details", "value", imp.exportDetails, 0, <<>>, <<>>)>>
      \o SummarySection("imported-files", imp.importedFiles)
      \o SummarySection("imported-objects", imp.importedObjects)
      \o SummarySection("exec-script-results", imp.execScript)
      \o FileCopyLog(imp.fileCopy)
      \o ImportedDebug(imp.importedDebug)

ImportSections(imp) ==
    <<Reported("export-details", "value", imp.exportDetails, 0, <<>>, <<>>)>>
      \o SummarySection("exec-script-results", imp.execScript)
      \o FileCopyLog(imp.fileCopy)
      \o ImportedDebug(imp.importedDebug)
      \o SummarySection("imported-files", imp.importedFiles)
      \o SummarySection("imported-objects", imp.importedObjects)

\* Fault variant of ImportDetail: only a detected-errors object counts as an error.
ImportDetailOnlyTrue(s, p, body) ==
    LET imp == body.imp IN
    IF imp.t = "absent" THEN Raise(s, "KeyError")
    ELSE IF imp.detected.t = "absent" THEN Raise(s, "KeyError")
    ELSE IF imp.detected.t = "dict" THEN
        IF imp.detected.error = "absent" THEN Raise(s, "KeyError")
        ELSE Return(s, [s.tmp EXCEPT !.msg = Msg("Import failed with error code", "", "", imp.detected.error, NoErr),
                                      !.changed = "False", !.failed = "True"])
    ELSE IF imp.exportDetails = "absent" THEN Raise(s, "KeyError")
    ELSE IF body.status = "absent" THEN Raise(s, "KeyError")
    ELSE Return(s, [s.tmp EXCEPT !.hasResults = TRUE, !.results = ImportSections(imp),
                                  !.msg = PlainText(capitalize(body.status)),
                                  !.changed = "True"])

\* import_results = doim_data['result']['Import']['import-results'] ... (state imported)
ImportDetail(s, p, body) ==
    LET imp == body.imp IN
    IF imp.t = "absent" THEN Raise(s, "KeyError")
    ELSE IF imp.detected.t = "absent" THEN Raise(s, "KeyError")
    ELSE IF ~(imp.detected.t = "str" /\ imp.detected.v = "false") THEN
        \* 'Import failed with error code: "' + import_results['detected-errors']['error'] + '"'
        IF imp.detected.t # "dict" THEN Raise(s, "TypeError")
        ELSE IF imp.detected.error = "absent" THEN Raise(s, "KeyError")
        ELSE Return(s, [s.tmp EXCEPT !.msg = Msg("Import failed with error code", "", "", imp.detected.error, NoErr),
                                      !.changed = "False", !.failed = "True"])
    ELSE IF imp.exportDetails = "absent" THEN Raise(s, "KeyError")
    ELSE IF body.status = "absent" THEN Raise(s, "KeyError")
    ELSE Return(s, [s.tmp EXCEPT !.hasResults = TRUE, !.results = ImportSections(imp),
                                  !.msg = PlainText(capitalize(body.status)),
                                  !.changed = "True"])

\* --------------------------------------------------------- final detail GET
\* Fault variant of DetailUri: the detail is fetched from the action URI.
DetailUriAction(s, p) == URI_ACTION(domain_name(p))

\* api_call(create_data['_links']['location']['href'], method='GET')
DetailUri(s, p) == UriHref(s.href)

\* From the return of wait_for_action_end to the end of the invocation.
AfterDetail(s, p, r) ==
    LET s1 == Sent(s, "detail", "GET", DetailUri(s, p), r) IN
    IF r.kind = "err" THEN Raise(s1, "TransportError")
    ELSE IF IsOK(r) THEN
        CASE s.state = "present"  -> PresentDetail(s1, p, r.body)
          [] s.state = "exported" -> ExportDetail(s1, p, r.body)
          [] s.state = "reseted"  -> ResetDetail(s1, p, r.body)
          [] s.state = "saved"    -> SaveDetail(s1, p, r.body)
          [] s.state = "imported" -> ImportDetail(s1, p, r.body)
          [] OTHER                -> RemoveRollbackDetail(s1, p, r.body)
    ELSE fail_json(s1, Msg("ERROR_RETRIEVING_RESULT", s.state, domain_name(p), "", NoErr))

Detected(t, v, error) == [t |-> t, v |-> v, error |-> error]

\* an entry of a nested list; status "absent" is an entry without that key
Entries ==
    [name : {"a", "b"}, status : {"ok", "fail"}] \cup {[name |-> "a", status |-> "absent"]}

MaxItems == 2

RECURSIVE SeqsUpTo(_, _)
SeqsUpTo(S, n) ==
    IF n = 0 THEN {<<>>}
    ELSE LET shorter == SeqsUpTo(S, n - 1) IN
         shorter \cup { Append(q, e) : q \in shorter, e \in S }

RawSections ==
    { NoSection, [t |-> "nokey", items |-> <<>>] }
      \cup { [t |-> "obj", items |-> <<e>>] : e \in Entries }
      \cup { [t |-> "list", items |-> q] : q \in SeqsUpTo(Entries, MaxItems) }

ImportOK ==
    [t |-> "dict", detected |-> Detected("str", "false", "absent"), exportDetails |-> "details",
     execScript |-> NoSection, fileCopy |-> NoSection, importedDebug |-> "absent",
     importedFiles |-> NoSection, importedObjects |-> NoSection]

\* import-results without nested sections
ImportResults ==
    { NoImp }
      \cup { [ImportOK EXCEPT !.detected = d] :
               d \in { NoDetected, Detected("str", "false", "absent"),
                       Detected("str", "true", "absent"), Detected("bool", "False", "absent"),
                       Detected("dict", "", "E1"), Detected("dict", "", "absent") } }
      \cup { [ImportOK EXCEPT !.exportDetails = "absent"] }

\* which of the four nested sections are present: one of them, or all
SectionFlags == { m \in [1..4 -> BOOLEAN] : Cardinality({ i \in 1..4 : m[i] }) \in {1, 4} }

\* import-results of a clean import, the same raw value v in every nested
\* section that is present
NestedImportResults ==
    { [ImportOK EXCEPT !.execScript = IF m[1] THEN v ELSE NoSection,
                       !.fileCopy = IF m[2] THEN v ELSE NoSection,
                       !.importedDebug = g,
                       !.importedFiles = IF m[3] THEN v ELSE NoSection,
                       !.importedObjects = IF m[4] THEN v ELSE NoSection] :
        v \in RawSections \ {NoSection}, m \in SectionFlags, g \in {"absent", "debug"} }

DetailBodies(state) ==
    CASE state \in {"present", "absent", "restored"} ->
            { [Body0 EXCEPT !.status = l] : l \in StatusLabels \cup {"absent"} }
              \cup { [Body0 EXCEPT !.status = "error", !.error = e] : e \in ErrorPayloads }
              \cup { [Body0 EXCEPT !.status = "completed", !.error = ErrStr(<<OtherText>>)] }
      [] state = "exported" ->
            { [Body0 EXCEPT !.status = l, !.file = f] :
                l \in {"completed", "error", "absent"}, f \in {"absent", "UEsDBA=="} }
      [] state = "imported" ->
            { [Body0 EXCEPT !.status = l, !.imp = i] :
                l \in {"completed", "error", "absent"}, i \in ImportResults }
              \cup { [Body0 EXCEPT !.status = "completed", !.imp = i] :
                       i \in NestedImportResults }
      [] OTHER ->
            { [Body0 EXCEPT !.status = l] : l \in StatusLabels \cup {"absent"} }
              \cup { [Body0 EXCEPT !.status = "error", !.error = ErrStr(<<OtherText>>)] }

DetailResponses(state) ==
    {TransportError, Http(404, "Not Found", Body0),
     Http(200, "Other", [Body0 EXCEPT !.status = "completed"])}
      \cup { Http(200, "OK", b) : b \in DetailBodies(state) }

Detail(p) ==
    /\ st[p].pc = "detail"
    /\ \E r \in DetailResponses(st[p].state) : Step(p, AfterDetail(st[p], p, r))

\* ------------------------------------------------------------ behaviours
Next ==
    \E p \in Procs :
        \/ DomainList(p)
        \/ DomainStatus(p)
        \/ Submit(p)
        \/ Poll(p)
        \/ Detail(p)
        \/ Store(p)

Spec == Init /\ [][Next]_vars

\* ===================================================================
\* Properties
\* ===================================================================
Running == { p \in Procs : st[p].pc # "off" }

Finished(p) == st[p].pc = "done"

\* The record the invocation printed.
Out(p) == st[p].terms[1]

Idx(p, kind) == { i \in 1..Len(st[p].reqs) : st[p].reqs[i].kind = kind }

\* changed is not reported true (fail_json prints no 'changed' key)
NotChanged(rec) == rec.changed \in {"False", "absent"}

\* C1: every invocation of either module ends with exactly one terminal
\* record (one exit_json or one fail_json), and prints none before its end.
C1_ExactlyOneTerminal ==
    \A p \in Running :
        /\ Finished(p) => Len(st[p].terms) = 1 /\ Out(p).kind \in {"exit", "fail"}
        /\ ~Finished(p) => Len(st[p].terms) = 0

\* an invocation that failed inside the body of main() after its last request
C1_Witness ==
    \E p \in Running :
        /\ Finished(p) /\ Len(st[p].terms) = 1
        /\ Out(p).kind = "fail" /\ Out(p).msg.k = "ERROR_RETRIEVING_RESULT"
        /\ Idx(p, "detail") # {}

SubmitResp(p) == st[p].reqs[CHOOSE i \in Idx(p, "submit") : TRUE].resp

DetailResp(p) == st[p].reqs[CHOOSE i \in Idx(p, "detail") : TRUE].resp

\* C2: for every asynchronous action kind, a final detail body fetched with
\* 200 OK that reports status 'error' never ends in a record with
\* changed=true: the record is failed, or the no-op message.
C2_ErrorInFinalBodyNeverChanged ==
    \A p \in Running :
        (/\ Finished(p) /\ Idx(p, "detail") # {}
         /\ IsOK(DetailResp(p)) /\ DetailResp(p).body.status = "error")
        => /\ Out(p).changed # "True"
           /\ Out(p).failed = "True" \/ Out(p).msg = IMMUTABLE_MESSAGE

\* C3: a submission answered with HTTP 200 whose inline body carries a
\* device error ends failed and never with changed=true.
C3_SyncErrorInBodyFails ==
    \A p \in Running :
        (/\ Finished(p) /\ Idx(p, "submit") # {}
         /\ SubmitResp(p).kind = "http" /\ SubmitResp(p).code = 200
         /\ SubmitResp(p).body.error # NoErr)
        => Out(p).failed = "True" /\ Out(p).changed # "True"

\* detected-errors is present and is not the no-error marker 'false'
DetectedErrors(imp) ==
    /\ imp.t = "dict" /\ imp.detected.t # "absent"
    /\ ~(imp.detected.t = "str" /\ imp.detected.v = "false")

\* C4: state imported, asynchronous path: when the final body's
\* import-results carries detected-errors other than the no-error marker the
\* record is failed, not changed and has no results; a record with
\* changed=true exists only when detected-errors is the no-error marker.
C4_DetectedErrorsNeverCompleted ==
    \A p \in Running :
        (Finished(p) /\ st[p].state = "imported" /\ Idx(p, "detail") # {})
        => /\ DetectedErrors(DetailResp(p).body.imp)
                => /\ Out(p).failed = "True"
                   /\ NotChanged(Out(p))
                   /\ ~Out(p).hasResults
           /\ Out(p).changed = "True"
                => /\ DetailResp(p).body.imp.t = "dict"
                   /\ DetailResp(p).body.imp.detected = Detected("str", "false", "absent")

\* an import whose final body reports a detected error, ended by exit_json
C4_Witness ==
    \E p \in Running :
        /\ Finished(p) /\ st[p].state = "imported" /\ Idx(p, "detail") # {}
        /\ IsOK(DetailResp(p))
        /\ DetailResp(p).body.imp.detected = Detected("dict", "", "E1")
        /\ Out(p).kind = "exit" /\ Out(p).failed = "True" /\ Out(p).changed = "False"

\* C5: a submission answered with status 202 and a body with a location
\* link leads to polling that location whatever the reason phrase, and is
\* never treated as a rejection.
C5_AcceptedAlwaysPolled ==
    \A p \in Running :
        (/\ Idx(p, "submit") # {}
         /\ SubmitResp(p).kind = "http" /\ SubmitResp(p).code = 202
         /\ SubmitResp(p).body.href # "absent")
        => \/ st[p].pc = "poll" /\ st[p].href = SubmitResp(p).body.href
           \/ \E i \in Idx(p, "poll") : st[p].reqs[i].uri = UriHref(SubmitResp(p).body.href)

\* C6: a submission answered with 202 whose body has no location link ends
\* the invocation in a failure; no poll, no detail GET, no success record.
C6_AcceptedWithoutLocationFails ==
    \A p \in Running :
        (/\ Idx(p, "submit") # {}
         /\ SubmitResp(p).kind = "http" /\ SubmitResp(p).code = 202
         /\ SubmitResp(p).body.href = "absent")
        => /\ Finished(p)
           /\ Out(p).kind = "fail" /\ Out(p).failed = "True"
           /\ Idx(p, "poll") = {} /\ Idx(p, "detail") = {}

\* a 202 Accepted without a location link, ended as an uncontrolled exception
C6_Witness ==
    \E p \in Running :
        /\ Finished(p) /\ Idx(p, "submit") # {}
        /\ IsAccepted(SubmitResp(p)) /\ SubmitResp(p).body.href = "absent"
        /\ Out(p).msg.k = "UNCONTROLLED_EXCEPTION"

\* a poll response whose status is not the in-progress marker
Terminal(r) == r.kind = "http" /\ r.body.status \notin {"absent", Pending}

StillPending(r) == r.kind = "http" /\ r.body.status = Pending

\* C7: the first poll response with a status other than the in-progress
\* marker ends the poll loop: no poll follows it, and the only request after
\* it is the one final detail GET on the same location.
C7_TerminalPollEndsLoop ==
    \A p \in Running : \A i \in Idx(p, "poll") :
        Terminal(st[p].reqs[i].resp)
        => /\ \A j \in Idx(p, "poll") : j <= i
           /\ Len(st[p].reqs) <= i + 1
           /\ Len(st[p].reqs) = i => st[p].pc = "detail"
           /\ Len(st[p].reqs) = i + 1
                => /\ st[p].reqs[i + 1].kind = "detail"
                   /\ st[p].reqs[i + 1].method = "GET"
                   /\ st[p].reqs[i + 1].uri = st[p].reqs[i].uri
                   /\ Finished(p)

\* two pending polls, a terminal one, then the detail GET
C7_Witness ==
    \E p \in Running :
        /\ Finished(p) /\ Cardinality(Idx(p, "poll")) = 3 /\ Idx(p, "detail") # {}
        /\ \E i \in Idx(p, "poll") :
              /\ Terminal(st[p].reqs[i].resp)
              /\ StillPending(st[p].reqs[i - 1].resp)
              /\ st[p].reqs[i + 1].kind = "detail"

C9_CheckpointAsyncCompleted ==
    \A p \in Running :
        (/\ st[p].module = "chkpoint" /\ Finished(p) /\ Idx(p, "detail") # {}
         /\ IsOK(DetailResp(p)) /\ DetailResp(p).body.status \notin {"absent", "error"})
        => /\ Out(p).kind = "exit"
           /\ Out(p).changed = "True"
           /\ Out(p).failed = "absent"
           /\ Out(p).msg = PlainText(capitalize(DetailResp(p).body.status))
           /\ DetailResp(p).body.status = "completed" => Out(p).msg.text = "Completed"

\* SaveCheckpoint: pending twice, then completed, final GET completed
C9_Witness ==
    \E p \in Running :
        /\ st[p].state = "present" /\ Finished(p)
        /\ Cardinality(Idx(p, "poll")) = 3
        /\ \E i \in Idx(p, "poll") : StillPending(st[p].reqs[i].resp)
        /\ Idx(p, "detail") # {} /\ IsOK(DetailResp(p))
        /\ DetailResp(p).body.status = "completed"
        /\ Out(p).changed = "True" /\ Out(p).msg.text = "Completed"

\* the error value of a body holds the phrase somewhere in its text
Mentions(err, phrase) ==
    \E i \in 1..Len(err.items) : phrase \in Range(err.items[i])

\* C10: state absent: a RemoveCheckpoint answered 400 whose error contains
\* "Cannot find Configuration Checkpoint '<name>'." for the requested name
\* exits with changed=false, failed unset and the already-in-desired-state
\* message, and no request follows the submission.
C10_RemoveMissingIsNoop ==
    \A p \in Running :
        (/\ st[p].state = "absent" /\ Idx(p, "submit") # {}
         /\ SubmitResp(p).kind = "http" /\ SubmitResp(p).code = 400
         /\ Mentions(SubmitResp(p).body.error, CannotFind(chkpoint_name(p))))
        => /\ Finished(p)
           /\ Out(p).kind = "exit"
           /\ Out(p).changed = "False"
           /\ Out(p).failed = "absent"
           /\ Out(p).msg = IMMUTABLE_MESSAGE
           /\ Idx(p, "poll") = {} /\ Idx(p, "detail") = {}

\* ------------------------------------------------------------------ C11
CheckpointNames == {"cp1", "cp2", "cp11"}

\* the error value is exactly the "already exists" message naming `name`
IsAlreadyExistsMessage(err, name) ==
    err \in {ErrStr(<<AlreadyExists(name)>>), ErrList(<<<<AlreadyExists(name)>>>>)}

\* C11: state present with requested checkpoint name N, final body fetched
\* with 200 OK reporting status 'error': the error message "Configuration
\* Checkpoint 'N' already exists." gives the no-op record (changed=false, not
\* failed, the already-in-desired-state message); the same phrase naming any
\* other checkpoint M gives failed=true with the formatted error message.
C11_AlreadyExistsOnlyForRequestedName ==
    \A p \in Running : \A M \in CheckpointNames :
        (/\ st[p].state = "present" /\ Idx(p, "detail") # {}
         /\ IsOK(DetailResp(p)) /\ DetailResp(p).body.status = "error"
         /\ IsAlreadyExistsMessage(DetailResp(p).body.error, M))
        => /\ Finished(p)
           /\ Out(p).kind = "exit"
           /\ Out(p).changed = "False"
           /\ IF M = chkpoint_name(p)
              THEN Out(p).failed = "absent" /\ Out(p).msg = IMMUTABLE_MESSAGE
              ELSE /\ Out(p).failed = "True"
                   /\ Out(p).msg = GENERAL_ERROR("present", domain_name(p),
                                                 DetailResp(p).body.error)

\* requested cp1, device reports that cp11 already exists: hard failure
C11_Witness ==
    \E p \in Running :
        /\ st[p].state = "present" /\ Finished(p) /\ chkpoint_name(p) = "cp1"
        /\ Idx(p, "detail") # {} /\ IsOK(DetailResp(p))
        /\ DetailResp(p).body.status = "error"
        /\ IsAlreadyExistsMessage(DetailResp(p).body.error, "cp11")
        /\ Out(p).failed = "True"

\* ------------------------------------------------------------------ C12
\* the error value is exactly one of the catalog phrases naming `name`
IsCatalogMessage(err, name) ==
    \E f \in {AlreadyExists(name), CannotFind(name)} :
        err \in {ErrStr(<<f>>), ErrList(<<<<f>>>>)}

\* C12: checkpoint module, any of SaveCheckpoint, RemoveCheckpoint and
\* RollbackCheckpoint: a submission answered with a status other than 200 and
\* 202 ends the invocation, as success-without-change when the error text is
\* a catalog phrase for the requested checkpoint and as a hard failure
\* otherwise.
C12_RejectionArbitrated ==
    \A p \in Running :
        (/\ st[p].module = "chkpoint" /\ Idx(p, "submit") # {}
         /\ SubmitResp(p).kind = "http" /\ SubmitResp(p).code \notin {200, 202})
        => /\ Finished(p)
           /\ IF IsCatalogMessage(SubmitResp(p).body.error, chkpoint_name(p))
              THEN /\ Out(p).kind = "exit" /\ Out(p).changed = "False"
                   /\ Out(p).failed = "absent" /\ Out(p).msg = IMMUTABLE_MESSAGE
              ELSE Out(p).failed = "True"

\* ------------------------------------------------------------------ C13
SummarisedSections == {"exec-script-results", "imported-files", "imported-objects"}

\* the raw nested section of import-results reported under `section`
RawSection(imp, section) ==
    CASE section = "exec-script-results" -> imp.execScript
      [] section = "file-copy-log"       -> imp.fileCopy
      [] section = "imported-files"      -> imp.importedFiles
      [] OTHER                           -> imp.importedObjects

\* the elements of the printed results that report `section`
ReportedAs(rec, section) ==
    { rec.results[i] : i \in { j \in 1..Len(rec.results) : rec.results[j].section = section } }

\* p imported cleanly: the final body was read and the sections were reported
ImportReported(p) ==
    /\ st[p].state = "imported" /\ Finished(p) /\ Idx(p, "detail") # {}
    /\ IsOK(DetailResp(p)) /\ Out(p).kind = "exit" /\ Out(p).hasResults

\* C13: for exec-script-results/cfg-result, imported-files/file and
\* imported-objects/object of a clean import: a raw field that is a single
\* object is reported as a collection of length 1 holding that object
\* (total 1, items [object]); a raw field that is a list is reported with
\* items equal to the list, order preserved.
C13_SingleObjectWrapped ==
    \A p \in Running : ImportReported(p) =>
        \A section \in SummarisedSections :
            LET raw == RawSection(DetailResp(p).body.imp, section) IN
            /\ raw.t = "obj" =>
                 \E e \in ReportedAs(Out(p), section) :
                     e.form = "summary" /\ e.total = 1 /\ e.detail = raw.items
            /\ raw.t = "list" =>
                 \E e \in ReportedAs(Out(p), section) : e.detail = raw.items

\* ------------------------------------------------------------------ C14
RECURSIVE SumOver(_, _)
\* the sum of the counts f[l] for l in labels
SumOver(f, labels) ==
    IF labels = {} THEN 0
    ELSE LET l == CHOOSE x \in labels : TRUE IN f[l] + SumOver(f, labels \ {l})

\* the elements of the printed results that carry a summary
Summaries(rec) ==
    { rec.results[i] : i \in { j \in 1..Len(rec.results) : rec.results[j].form = "summary" } }

\* C14: in every reported collection with a summary, total is the number of
\* detail items, every item's status label is counted, each label's count is
\* the number of items carrying it, and the counts add up to total.
C14_SummaryCountsItems ==
    \A p \in Running : ImportReported(p) =>
        \A e \in Summaries(Out(p)) :
            /\ e.total = Len(e.detail)
            /\ \A i \in 1..Len(e.detail) : e.detail[i].status \in DOMAIN e.status
            /\ \A l \in DOMAIN e.status :
                   e.status[l] = Cardinality({ i \in 1..Len(e.detail) : e.detail[i].status = l })
            /\ SumOver(e.status, DOMAIN e.status) = e.total

\* a summary of two entries carrying the same label
C14_Witness ==
    \E p \in Running :
        /\ ImportReported(p)
        /\ \E e \in Summaries(Out(p)) :
               /\ e.total = 2 /\ DOMAIN e.status = {"ok"} /\ e.status["ok"] = 2
               /\ e.detail[1] # e.detail[2]

\* ------------------------------------------------------------------ C15
NestedSections == SummarisedSections \cup {"file-copy-log"}

\* C15: of the four nested collections of a clean import (executed-script
\* results, copied files, imported files, imported objects), any two that
\* arrive in the same raw shape, a single object or a list of entries, are
\* reported in the same normalized form: same total, same status counts,
\* same ordered items.
C15_SameNormalizationEverywhere ==
    \A p \in Running : ImportReported(p) =>
        \A a \in NestedSections : \A b \in NestedSections :
            LET imp == DetailResp(p).body.imp IN
            (/\ RawSection(imp, a) = RawSection(imp, b)
             /\ RawSection(imp, a).t \in {"obj", "list"})
            => \E ea \in ReportedAs(Out(p), a) : \E eb \in ReportedAs(Out(p), b) :
                   /\ ea.form = eb.form
                   /\ ea.total = eb.total
                   /\ ea.detail = eb.detail
                   /\ ea.status = eb.status

\* ------------------------------------------------------------------ C16
ListResp(p) == st[p].reqs[CHOOSE i \in Idx(p, "list") : TRUE].resp

\* the listing was answered 200 and names the requested domain
ListingHasDomain(p) ==
    /\ ListResp(p).kind = "http" /\ ListResp(p).code = 200
    /\ domain_name(p) \in Range(configured_domains(ListResp(p).body))

StateChanging(p) == Idx(p, "submit") \cup Idx(p, "store")

\* the invocations of the checkpoint and config modules
Acting == { p \in Running : st[p].module \in {"chkpoint", "config"} }

\* C16: checkpoint and config modules: the domain listing is the first
\* request of an invocation and is fetched once (an invocation whose imports
\* are in place does not end without it); an action POST or filestore PUT is
\* issued only after a listing answered 200 OK that contains the requested
\* domain; when the listing fails or lacks the domain the invocation ends in
\* a failure right after it.
C16_ListingGuardsStateChange ==
    \A p \in Acting :
        /\ st[p].reqs # <<>> =>
              st[p].reqs[1].kind = "list" /\ Cardinality(Idx(p, "list")) = 1
        /\ Finished(p) /\ st[p].deps => Idx(p, "list") # {}
        /\ StateChanging(p) # {} => IsOK(ListResp(p)) /\ ListingHasDomain(p)
        /\ Idx(p, "list") # {} /\ ~ListingHasDomain(p) =>
              /\ Finished(p) /\ Out(p).kind = "fail" /\ Out(p).failed = "True"
              /\ Len(st[p].reqs) = 1

\* a 200 OK listing of other domains only: the invocation failed after it
C16_Witness ==
    \E p \in Acting :
        /\ Finished(p) /\ Idx(p, "list") # {} /\ IsOK(ListResp(p))
        /\ ListResp(p).body.domain.t = "list"
        /\ ~ListingHasDomain(p)
        /\ Out(p).kind = "fail" /\ StateChanging(p) = {}

\* ------------------------------------------------------------------ C17
\* C17: after a GET /domains answered 200 OK whose body has the 'domain'
\* field, the configured names are [d.name] for a single object and the
\* names of the listed objects in device order for a list; the discovery
\* module exits with exactly that sequence as msg; the checkpoint and config
\* modules go past the listing when the requested domain is one of the names
\* and fail with the no-such-domain message when it is not.
C17_ConfiguredDomains ==
    \A p \in Running :
        (/\ Finished(p) /\ Idx(p, "list") # {} /\ IsOK(ListResp(p))
         /\ ListResp(p).body.domain.t # "absent")
        => LET d == ListResp(p).body.domain
               names == IF d.t = "dict" THEN <<d.names[1]>> ELSE d.names
           IN IF st[p].module = "discovery"
              THEN /\ Out(p).kind = "exit" /\ Out(p).msg = NamesList(names)
                   /\ Len(st[p].reqs) = 1
              ELSE (Out(p).msg.k = "ERROR_NOT_DOMAIN")
                       <=> (\A i \in 1..Len(names) : names[i] # domain_name(p))

\* discovery of a device that lists d2 before d1
C17_Witness ==
    \E p \in Running :
        /\ st[p].module = "discovery" /\ Finished(p)
        /\ Out(p).kind = "exit" /\ Out(p).msg.names = <<"d2", "d1">>

\* ------------------------------------------------------------------ C18
\* the answer was neither 200 nor 202 (nor 201 for the filestore PUT)
Rejected(req) ==
    /\ req.resp.kind = "http"
    /\ req.resp.code \notin (IF req.kind = "store" THEN {200, 201} ELSE {200, 202})

\* C18: whatever the device answers, an invocation issues at most one
\* state-changing request (action POST or filestore PUT); a rejected one is
\* the invocation's last request and the invocation has ended.
C18_AtMostOneStateChange ==
    \A p \in Running :
        /\ Cardinality(StateChanging(p)) <= 1
        /\ \A i \in StateChanging(p) :
               Rejected(st[p].reqs[i]) => Finished(p) /\ i = Len(st[p].reqs)

\* a rejected action POST, nothing after it
C18_Witness ==
    \E p \in Running :
        /\ Finished(p) /\ Idx(p, "submit") # {}
        /\ SubmitResp(p).kind = "http" /\ SubmitResp(p).code = 500
        /\ Cardinality(StateChanging(p)) = 1
        /\ st[p].reqs[Len(st[p].reqs)].kind = "submit"

\* ------------------------------------------------------------------ C19
LastReq(p) == st[p].reqs[Len(st[p].reqs)]

\* the message names the state attempted (the import failure text names the
\* Import action itself)
NamesAttempt(msg, state) ==
    msg.state = state \/ msg.k = "Import failed with error code"

\* the message repeats the error text of the response, when it has one
CarriesDeviceError(msg, body) ==
    /\ body.error # NoErr => msg.err = body.error
    /\ body.imp.detected.t = "dict" /\ body.imp.detected.error # "absent" =>
           msg.text = body.imp.detected.error

\* the four kinds of failure: rejected submission, failed detail fetch, error
\* in the final body, import with detected errors
DeviceFailure(req) ==
    /\ req.resp.kind = "http"
    /\ \/ req.kind = "submit" /\ Rejected(req)
       \/ req.kind = "detail" /\ req.resp.code # 200
       \/ req.kind = "detail" /\ IsOK(req.resp) /\ req.resp.body.status = "error"
                              /\ req.resp.body.error # NoErr
       \/ req.kind = "detail" /\ IsOK(req.resp) /\ req.resp.body.imp.detected.t = "dict"
                              /\ req.resp.body.imp.detected.error # "absent"

\* C19: checkpoint and config modules: a failure reported after the device
\* answered the action POST or the final detail GET (rejected submission,
\* error in the final body, import with detected errors, failed detail fetch)
\* has a message that holds the state or action attempted, the target domain
\* and, when the response carried an error text, that text.
C19_FailureMessageComplete ==
    \A p \in Acting :
        (/\ Finished(p) /\ Out(p).failed = "True" /\ st[p].reqs # <<>>
         /\ DeviceFailure(LastReq(p)))
        => /\ NamesAttempt(Out(p).msg, st[p].state)
           /\ Out(p).msg.domain = domain_name(p)
           /\ CarriesDeviceError(Out(p).msg, LastReq(p).resp.body)

\* ------------------------------------------------------------------ C20
\* the final body lacks the field the module reads for this state
LacksReadField(state, body) ==
    CASE state \in {"present", "absent", "restored", "reseted"} -> body.status = "absent"
      [] state = "exported" -> body.file = "absent"
      [] state = "imported" -> body.imp.t = "absent"
      [] OTHER -> FALSE

\* C20: after an accepted asynchronous action was polled to its end, a final
\* detail GET that is not answered 200 OK, or whose body lacks the field the
\* module reads (status, result.file, result.Import.import-results), ends the
\* invocation in a failure: never changed=true, never the no-op message.
C20_UnreadableDetailFails ==
    \A p \in Acting :
        (/\ Idx(p, "detail") # {}
         /\ \/ DetailResp(p).kind # "http"
            \/ ~IsOK(DetailResp(p))
            \/ LacksReadField(st[p].state, DetailResp(p).body))
        => /\ Finished(p)
           /\ Out(p).kind = "fail" /\ Out(p).failed = "True"
           /\ NotChanged(Out(p))
           /\ Out(p).msg # IMMUTABLE_MESSAGE

\* an export polled to its end whose final body, fetched with 200 OK, has no file
C20_Witness ==
    \E p \in Acting :
        /\ st[p].state = "exported" /\ Finished(p)
        /\ Idx(p, "poll") # {} /\ Idx(p, "detail") # {}
        /\ IsOK(DetailResp(p)) /\ DetailResp(p).body.file = "absent"
        /\ Out(p).kind = "fail"

\* ------------------------------------------------------------------ C21
\* the record reports a completed action: changed=true and a message
Completed(rec) == rec.changed = "True" /\ rec.msg # NoMsg

\* the record reports a no-op: changed not true, already-in-desired-state message
NoOp(rec) == NotChanged(rec) /\ rec.msg = IMMUTABLE_MESSAGE

\* C21: an invocation of the checkpoint or config module, not in check mode,
\* that exits without failure reports either a completed action (changed=true
\* with a message from the device outcome) or a no-op (changed not true with
\* the already-in-desired-state message), and not both; for state saved this
\* includes the run whose domain-status query was not answered 200 OK.
C21_SuccessIsCompletedOrNoOp ==
    \A p \in Acting :
        (/\ Finished(p) /\ ~st[p].check_mode
         /\ Out(p).kind = "exit" /\ Out(p).failed # "True")
        => /\ Completed(Out(p)) \/ NoOp(Out(p))
           /\ ~(Completed(Out(p)) /\ NoOp(Out(p)))

\* ------------------------------------------------------------------ C22
\* C22: a request of any kind (domain listing, domain status, action
\* submission, poll, detail fetch, filestore PUT) that ends in a transport
\* error is the last request of its invocation: it is not sent again, nothing
\* follows it, and the invocation has printed exactly one record, a failure.
C22_TransportErrorIsFatal ==
    \A p \in Running : \A i \in 1..Len(st[p].reqs) :
        st[p].reqs[i].resp.kind = "err"
        => /\ i = Len(st[p].reqs)
           /\ Finished(p) /\ Len(st[p].terms) = 1
           /\ Out(p).kind = "fail" /\ Out(p).failed = "True"
           /\ NotChanged(Out(p))

\* the second poll of an accepted action cannot reach the device
C22_Witness ==
    \E p \in Running :
        /\ Finished(p) /\ Cardinality(Idx(p, "poll")) = 2
        /\ LastReq(p).kind = "poll" /\ LastReq(p).resp.kind = "err"
        /\ Out(p).kind = "fail"

\* ------------------------------------------------------------------ C23
\* Two invocations, each its own process with its own main(), started
\* together; their requests interleave in any order.
FirstInvocations == { <<"chkpoint", "present">>, <<"config", "saved">> }

SecondInvocations == { <<"chkpoint", "absent">>, <<"config", "stored">> }

Init2 ==
    \E ms1 \in FirstInvocations, ms2 \in SecondInvocations :
        st = [p \in Procs |->
                Process(IF p = 1 THEN ms1 ELSE ms2, FALSE, TRUE, "/cert/ca_root.cer", p, "list")]

\* The answers the device gives to the request an invocation is waiting for.
InterleavedResponses(s) ==
    CASE s.pc = "list" ->
            { Http(500, "Internal Server Error", Body0),
              Http(200, "OK", [Body0 EXCEPT !.domain = [t |-> "list", names |-> <<"d2", "d1">>]]) }
      [] s.pc = "status" ->
            { Http(200, "OK", [Body0 EXCEPT !.dstatus =
                  [t |-> "list", items |-> <<DStat("d1", "on"), DStat("d2", "off")>>]]) }
      [] s.pc = "submit" ->
            { Http(202, "Accepted", [Body0 EXCEPT !.href = h]) : h \in Hrefs }
              \cup { Http(200, "OK", [Body0 EXCEPT !.action = "Operation completed."]),
                     Http(400, "Bad Request", [Body0 EXCEPT !.error = ErrStr(<<CannotFind("cp2")>>)]) }
      [] s.pc = "poll" ->
            { TransportError, Http(200, "OK", [Body0 EXCEPT !.status = Pending]),
              Http(200, "OK", [Body0 EXCEPT !.status = "completed"]) }
      [] s.pc = "detail" ->
            { Http(404, "Not Found", Body0),
              Http(200, "OK", [Body0 EXCEPT !.status = "completed"]),
              Http(200, "OK", [Body0 EXCEPT !.status = "error",
                                            !.error = ErrStr(<<AlreadyExists("cp1")>>)]) }
      [] s.pc = "store" ->
            { Http(201, "Created", [Body0 EXCEPT !.store_result = "File was created."]),
              Http(409, "Conflict", [Body0 EXCEPT !.error = ErrStr(<<OtherText>>)]) }
      [] OTHER -> {}

\* what main() of p does with the response r to the request it is waiting for
Handle(s, p, r) ==
    CASE s.pc = "list"   -> Begin(s, p, r)
      [] s.pc = "status" -> AfterDomainStatus(s, p, r)
      [] s.pc = "submit" -> AfterSubmit(s, p, r)
      [] s.pc = "poll"   -> wait_for_action_end(s, p, r)
      [] s.pc = "detail" -> AfterDetail(s, p, r)
      [] s.pc = "store"  -> AfterStore(s, p, r)
      [] OTHER           -> s

RECURSIVE RunAlone(_, _, _)
\* the invocation run on its own from s, given the responses still to come
RunAlone(s, p, reqs) ==
    IF reqs = <<>> THEN s
    ELSE RunAlone(Handle(s, p, Head(reqs).resp), p, Tail(reqs))

\* Either invocation receives the answer to its pending request.
Interleave(p) ==
    \E r \in InterleavedResponses(st[p]) : Step(p, Handle(st[p], p, r))

Next2 == \E p \in Procs : Interleave(p)

Spec2 == Init2 /\ [][Next2]_vars

\* p as it started
Started(p) ==
    Process(<<st[p].module, st[p].state>>, st[p].check_mode, st[p].deps,
            st[p].output_path, p, "list")

C24_AsyncRemoveMissingIsNoop ==
    \A p \in Running :
        (/\ st[p].state = "absent" /\ Idx(p, "detail") # {}
         /\ IsOK(DetailResp(p)) /\ DetailResp(p).body.status = "error"
         /\ DetailResp(p).body.error \in
                {ErrStr(<<CannotFind(chkpoint_name(p))>>),
                 ErrList(<<<<CannotFind(chkpoint_name(p))>>>>)})
        => /\ Finished(p)
           /\ Out(p).kind = "exit"
           /\ Out(p).changed = "False"
           /\ Out(p).failed = "absent"
           /\ Out(p).msg = IMMUTABLE_MESSAGE

\* ------------------------------------------------------------------ C25
\* position of a request kind in an invocation
Rank(kind) ==
    CASE kind = "list"   -> 1
      [] kind = "status" -> 2
      [] kind = "poll"   -> 4
      [] kind = "detail" -> 5
      [] OTHER           -> 3

\* C25: the requests of an invocation come in the order domain listing, at
\* most one action submission, polls, one final detail GET. Polls are sent
\* only after a submission answered 202 and to the location it named; the
\* detail GET is sent at most once, after the poll that ended the loop, to
\* the same location, and is sent whenever the poller returned; after a
\* synchronous 200 or a rejection there is neither poll nor detail GET.
C25_RequestOrder ==
    \A p \in Acting :
        LET reqs == st[p].reqs
            polls == Idx(p, "poll")
            details == Idx(p, "detail")
        IN
        /\ reqs # <<>> => reqs[1].kind = "list"
        /\ \A i \in 1..Len(reqs) : \A j \in 1..Len(reqs) :
               i < j => /\ Rank(reqs[i].kind) <= Rank(reqs[j].kind)
                        /\ Rank(reqs[i].kind) = Rank(reqs[j].kind) => reqs[i].kind = "poll"
        /\ polls \cup details # {} =>
               /\ Idx(p, "submit") # {}
               /\ SubmitResp(p).kind = "http" /\ SubmitResp(p).code = 202
               /\ \A i \in polls \cup details :
                      reqs[i].uri = UriHref(LocationHref(SubmitResp(p).body))
        /\ details # {} =>
               /\ polls # {}
               /\ \A i \in polls : Terminal(reqs[i].resp) <=> (i + 1 \in details)
        /\ (polls # {} /\ \E i \in polls : Terminal(reqs[i].resp)) =>
               (Cardinality(details) = 1 \/ st[p].pc = "detail")

\* accepted, two polls, then the detail GET on the same location
C25_Witness ==
    \E p \in Acting :
        /\ Finished(p) /\ Len(st[p].reqs) = 5
        /\ st[p].reqs[2].kind = "submit" /\ st[p].reqs[2].resp.code = 202
        /\ st[p].reqs[3].kind = "poll" /\ st[p].reqs[4].kind = "poll"
        /\ st[p].reqs[5].kind = "detail"
        /\ st[p].reqs[5].uri = st[p].reqs[3].uri

\* ------------------------------------------------------------------ C26
StatusResp(p) == st[p].reqs[CHOOSE i \in Idx(p, "status") : TRUE].resp

\* the SaveNeeded flags of the DomainStatus entries that name `domain`
SaveNeededFlags(body, domain) ==
    { body.dstatus.items[i].SaveNeeded :
        i \in { j \in 1..Len(body.dstatus.items) : body.dstatus.items[j].Domain = domain } }

\* C26: state saved, not in check mode, DomainStatus answered 200 OK: a
\* SaveConfig is submitted exactly when the entry of the requested domain,
\* single object or list element, has SaveNeeded other than 'off'; when it is
\* 'off' nothing state-changing is sent and the record is the no-op
\* (already-in-desired-state message, changed not true).
C26_SaveOnlyWhenNeeded ==
    \A p \in Acting :
        (/\ st[p].state = "saved" /\ ~st[p].check_mode /\ Idx(p, "status") # {}
         /\ IsOK(StatusResp(p)) /\ StatusResp(p).body.dstatus.t # "absent")
        => LET flags == SaveNeededFlags(StatusResp(p).body, domain_name(p)) IN
           /\ (Idx(p, "submit") # {} \/ st[p].pc = "submit")
                  <=> (flags # {} /\ "off" \notin flags)
           /\ flags = {"off"} =>
                  /\ Finished(p) /\ StateChanging(p) = {}
                  /\ Out(p).kind = "exit" /\ NoOp(Out(p))

\* ------------------------------------------------------------------ C27
\* C27: checkpoint and config modules: no printed record has failed=true
\* together with changed=true; a record printed by exit_json with failed=true
\* reports changed=false, also after the 400 rejection of RemoveCheckpoint,
\* whose branch leaves changed unset.
C27_FailedNeverChanged ==
    \A p \in Acting : \A i \in 1..Len(st[p].terms) :
        st[p].terms[i].failed = "True"
        => /\ st[p].terms[i].changed # "True"
           /\ st[p].terms[i].kind = "exit" => st[p].terms[i].changed = "False"

\* RemoveCheckpoint rejected with 400 Bad Request and an unknown error text
C27_Witness ==
    \E p \in Acting :
        /\ st[p].state = "absent" /\ Finished(p) /\ Idx(p, "submit") # {}
        /\ IsBadRequest(SubmitResp(p))
        /\ Out(p).kind = "exit" /\ Out(p).failed = "True" /\ Out(p).changed = "False"

\* ------------------------------------------------------------------ C28
\* C28: state exported: a record with changed=true has a 'file' field holding
\* the exported package, after an asynchronous 202 and after a synchronous
\* 200 alike.
C28_ExportCarriesFile ==
    \A p \in Acting :
        (st[p].state = "exported" /\ Finished(p) /\ Out(p).changed = "True")
        => Out(p).file \notin {"absent", "None"}

\* ------------------------------------------------------------------ C29
SectionOrder ==
    <<"exec-script-results", "file-copy-log", "imported-debug", "imported-files",
      "imported-objects">>

\* the device body has the section (for file-copy-log: its file-result)
SectionPresent(imp, section) ==
    CASE section = "imported-debug" -> imp.importedDebug # "absent"
      [] section = "file-copy-log"  -> imp.fileCopy.t \in {"obj", "list"}
      [] OTHER                      -> RawSection(imp, section).t # "absent"

\* the section names of the printed results, in order
SectionNames(rec) == [i \in 1..Len(rec.results) |-> rec.results[i].section]

\* C29: an import whose final body, fetched with 200 OK, has status,
\* export-details and detected-errors 'false': the results start with
\* export-details, followed by the sections the body has, in the order
\* exec-script-results, file-copy-log, imported-debug, imported-files,
\* imported-objects; a missing section is left out and the record is still
\* changed=true, not failed, with msg the capitalized final status.
C29_ImportSectionOrder ==
    \A p \in Acting :
        (/\ st[p].state = "imported" /\ Idx(p, "detail") # {} /\ IsOK(DetailResp(p))
         /\ DetailResp(p).body.imp.t # "absent"
         /\ DetailResp(p).body.imp.detected = Detected("str", "false", "absent")
         /\ DetailResp(p).body.imp.exportDetails # "absent"
         /\ DetailResp(p).body.status # "absent")
        => LET imp == DetailResp(p).body.imp IN
           /\ Finished(p) /\ Out(p).kind = "exit"
           /\ Out(p).changed = "True" /\ Out(p).failed = "absent"
           /\ Out(p).msg = PlainText(capitalize(DetailResp(p).body.status))
           /\ Out(p).hasResults
           /\ SectionNames(Out(p)) =
                  <<"export-details">>
                    \o SelectSeq(SectionOrder, LAMBDA n : SectionPresent(imp, n))

\* only imported-debug and imported-objects arrive: three results
C29_Witness ==
    \E p \in Acting :
        /\ ImportReported(p)
        /\ SectionNames(Out(p)) = <<"export-details", "imported-debug", "imported-objects">>
        /\ Out(p).changed = "True"

\* ------------------------------------------------------------------ C30
StoreResp(p) == st[p].reqs[CHOOSE i \in Idx(p, "store") : TRUE].resp

\* the PUT was answered 200 with reason 'OK', or 201 with any reason
StoreAccepted(r) == (r.code = 200 /\ r.reason = "OK") \/ r.code = 201

\* the failure message holds the response code and the response body
HoldsCodeAndBody(msg, r) ==
    msg.code = r.code /\ msg.text = r.body.store_result /\ msg.err = r.body.error

\* one PUT at most, and one when the invocation got as far as sending it
OnePut(p) ==
    /\ Cardinality(Idx(p, "store")) <= 1
    /\ (/\ Finished(p) /\ st[p].deps /\ ~st[p].check_mode
        /\ Idx(p, "list") # {} /\ IsOK(ListResp(p)) /\ ListingHasDomain(p)
        /\ FileNameOf(st[p].output_path) # "IndexError")
       => Cardinality(Idx(p, "store")) = 1

CheckModeExit(p) == Finished(p) /\ Out(p) = exit_json(result)

\* C31: in check mode no action POST and no filestore PUT is sent. The
\* check-mode exit happens only after a listing answered 200 OK that names
\* the requested domain, so a failed listing or a missing domain is a
\* failure in check mode too; for state saved it happens only after a
\* DomainStatus answered 200 OK with SaveNeeded other than 'off', and a
\* SaveNeeded of 'off' gives the no-op record, not the check-mode exit.
C31_CheckModeSendsNothing ==
    \A p \in Acting : st[p].check_mode =>
        /\ StateChanging(p) = {} /\ st[p].pc \notin {"submit", "store"}
        /\ (Idx(p, "list") # {} /\ ~(IsOK(ListResp(p)) /\ ListingHasDomain(p))) =>
               Finished(p) /\ Out(p).kind = "fail"
        /\ CheckModeExit(p) =>
               /\ Idx(p, "list") # {} /\ IsOK(ListResp(p)) /\ ListingHasDomain(p)
               /\ st[p].state = "saved" =>
                      /\ Idx(p, "status") # {} /\ IsOK(StatusResp(p))
                      /\ domain_save_needed(StatusResp(p).body, domain_name(p))
                             \notin {"off", "IndexError"}
        /\ (/\ st[p].state = "saved" /\ Idx(p, "status") # {} /\ IsOK(StatusResp(p))
            /\ StatusResp(p).body.dstatus.t # "absent"
            /\ domain_save_needed(StatusResp(p).body, domain_name(p)) = "off")
           => Finished(p) /\ NoOp(Out(p))

\* check mode, state saved, SaveNeeded 'on': two GETs, then the check-mode exit
C31_Witness ==
    \E p \in Acting :
        /\ st[p].check_mode /\ st[p].state = "saved" /\ CheckModeExit(p)
        /\ Len(st[p].reqs) = 2 /\ LastReq(p).kind = "status"
====
